---- MODULE Spec2Model ----
(***************************************************************************)
(* Upload store and tabular previewer of src/main.py.                      *)
(*                                                                         *)
(* Strings of the program (file names, file contents, delimiters) are      *)
(* sequences of one-character strings, so that basename, replace, the      *)
(* f-string concatenation and the csv reader work on characters.           *)
(***************************************************************************)
EXTENDS Integers, Sequences, FiniteSets, TLC

VARIABLES
    platform,   \* which os.path the interpreter imports: "posix" or "nt"
    fs,         \* UPLOAD_DIR: function from stored name to file content
    clients,    \* the clients whose requests the service handles
    once,       \* TRUE: every client sends one request only
    shapes,     \* the <<spec present, csv present>> pairs a request may have
    pc,         \* per client: position of its handler
    loc,        \* per client: the handler's locals
    resp,       \* per client: the response of its last finished request
    loop,       \* coroutine running on the event loop thread (0: none)
    before,     \* history: per client, fs when its request arrived
    writer,     \* history: stored name -> client whose write reached it last
    nameLog     \* history of the names computed (names specification)

vars == <<platform, fs, clients, once, shapes, pc, loc, resp, loop, before,
          writer, nameLog>>

-----------------------------------------------------------------------------
(* Bounds *)

MaxNameLen == 2      \* length of an uploaded part's filename
MaxUploadLen == 2    \* length of an uploaded content (store, race)
MaxFileLen == 4      \* length of a previewed file
MaxLines == 2        \* largest max_lines of a preview request

-----------------------------------------------------------------------------
(* Strings *)

RECURSIVE SeqsUpTo(_, _)
SeqsUpTo(S, n) ==
    IF n = 0 THEN {<<>>}
    ELSE LET T == SeqsUpTo(S, n - 1)
         IN  T \cup {Append(t, x) : t \in {u \in T : Len(u) = n - 1}, x \in S}

Max(S) == CHOOSE x \in S : \A y \in S : y <= x
Min(a, b) == IF a <= b THEN a ELSE b

Chars(s) == {s[i] : i \in 1..Len(s)}

\* s contains t as a contiguous substring
Contains(s, t) ==
    \E i \in 0..(Len(s) - Len(t)) : SubSeq(s, i + 1, i + Len(t)) = t

\* str.replace(old, new) for one-character old and new
Replace(s, old, new) == [i \in 1..Len(s) |-> IF s[i] = old THEN new ELSE s[i]]

-----------------------------------------------------------------------------
(* Upload store: the stored name (upload_files._save, lines 46-50) *)

Platforms == {"posix", "nt"}

\* posixpath.sep / ntpath.sep and altsep
Seps(plat) == IF plat = "posix" THEN {"/"} ELSE {"/", "\\"}

\* faulty variant: the filename is used as sent
BasenameSkipped(p, plat) == p

\* os.path.basename: what follows the last separator
Basename(p, plat) ==
    LET idx == {i \in 1..Len(p) : p[i] \in Seps(plat)}
        i   == IF idx = {} THEN 0 ELSE Max(idx)
    IN  SubSeq(p, i + 1, Len(p))

SPEC == <<"s", "p", "e", "c">>
CSV == <<"c", "s", "v">>
Labels == {SPEC, CSV}

\* line 46: os.path.basename(file.filename or label)
OriginalName(filename, label, plat) ==
    Basename(IF filename = <<>> THEN label ELSE filename, plat)

\* line 47: original_name.replace(" ", "_")
NameWithoutSpaces(original_name) == Replace(original_name, " ", "_")

\* faulty variant: no label prefix
TargetNameNoLabel(label, name_without_spaces) == name_without_spaces

\* line 49: f"{label}__{name_without_spaces}"
TargetName(label, name_without_spaces) ==
    label \o <<"_", "_">> \o name_without_spaces

StoredName(label, filename, plat) ==
    TargetName(label, NameWithoutSpaces(OriginalName(filename, label, plat)))

\* line 50: os.path.join(UPLOAD_DIR, target_name), as the path components
\* below UPLOAD_DIR (split at the platform's separators)
RECURSIVE Components(_, _)
Components(p, plat) ==
    LET idx == {i \in 1..Len(p) : p[i] \in Seps(plat)}
    IN  IF idx = {} THEN <<p>>
        ELSE LET i == Max(idx)
             IN  Append(Components(SubSeq(p, 1, i - 1), plat),
                        SubSeq(p, i + 1, Len(p)))

NameChars == {"a", " ", "_", ".", "/", "\\"}
FileNames == SeqsUpTo(NameChars, MaxNameLen)

-----------------------------------------------------------------------------
(* Upload store: the handler upload_files (lines 35-66) *)

StoreBytes == {"x", "y"}
UploadContents == SeqsUpTo(StoreBytes, MaxUploadLen)
\* two filenames that are sanitized to the same name
StoreFileNames == {<<"a", " ">>, <<"a", "_">>}

NoLocals ==
    [spec |-> FALSE, csv |-> FALSE, label |-> <<>>, filename |-> <<>>,
     original_name |-> <<>>, target_name |-> <<>>, contents |-> <<>>,
     saved |-> <<>>, sent |-> <<>>]

NoResponse ==
    [status |-> 0, kind |-> "none", detail |-> "", files |-> <<>>,
     preview |-> <<>>]

\* line 39: not spec and not csv
NoFilesProvided(spec, csv) == ~spec /\ ~csv

\* what the caller reads in an error response: the detail of an
\* HTTPException (lines 40, 84), and for every exception that nothing
\* catches the same text
Detail(status, kind) ==
    IF kind # "HTTPException" THEN "Internal Server Error"
    ELSE IF status = 400 THEN "No files provided. Send 'spec' and/or 'csv'."
    ELSE "CSV file not found"

\* faulty variant: the partial saved dict leaks into the error response
ErrorResponseWithSaved(status, kind, saved) ==
    [status |-> status, kind |-> kind, detail |-> Detail(status, kind),
     files |-> saved, preview |-> <<>>]

\* a raise leaving the handler: an HTTPException (lines 40, 84), or an
\* exception that nothing catches (status 500); the handler's partial
\* results are dropped
ErrorResponse(status, kind, saved) ==
    [status |-> status, kind |-> kind, detail |-> Detail(status, kind),
     files |-> <<>>, preview |-> <<>>]

\* line 66
OkResponse(saved) ==
    [status |-> 200, kind |-> "ok", detail |-> "", files |-> saved,
     preview |-> <<>>]

\* lines 54-59: the dict _save returns
StoredFile(l) ==
    [filename |-> l.original_name, stored_as |-> l.target_name,
     size |-> Len(l.contents), url |-> <<"/files/">> \o l.target_name]

\* faulty variant: opened without truncation (mode "r+b")
OpenNoTruncate(old) == old

\* open(target_path, "wb"): the file is created, or truncated to length 0
OpenTruncate(old) == <<>>

\* f.write(data) at offset off of a file holding old
WriteAt(old, off, data) ==
    LET n == IF Len(old) > off + Len(data) THEN Len(old) ELSE off + Len(data)
    IN  [i \in 1..n |-> IF i > off /\ i <= off + Len(data)
                        THEN data[i - off] ELSE old[i]]

\* StaticFiles mounted at /files (line 24): the content served at a url
Retrieve(url) == fs[Tail(url)]

\* faulty variant: the file is written through an async file api, which suspends
\* between open, write and close
SuspendsInWith(p) == p \in {"idle", "read", "write", "close", "done"}

\* the handler positions at which the coroutine is suspended and another
\* request's coroutine may run: before the handler starts, the await of
\* line 51, and after it returned; open, write and close run without an
\* await between them
Suspends(p) == p \in {"idle", "read", "done"}

Holds(c) == loop = 0 \/ loop = c
Yield(c, p) == IF Suspends(p) THEN 0 ELSE c

\* lines 46-50 of _save for one part, up to the await of line 51
EnterSave(l, label, filename, plat) ==
    LET original_name == OriginalName(filename, label, plat)
        target_name   == TargetName(label, NameWithoutSpaces(original_name))
    IN  [l EXCEPT !.label = label, !.filename = filename,
                  !.original_name = original_name,
                  !.target_name = target_name, !.contents = <<>>]

\* a request arrives and the handler runs to its first await (lines 39-50),
\* or raises the HTTPException of line 40
UploadFiles(c) ==
    /\ pc[c] = "idle" \/ (pc[c] = "done" /\ ~once)
    /\ Holds(c)
    /\ before' = [before EXCEPT ![c] = fs]
    /\ \E shape \in shapes :
         LET spec == shape[1]
             csv  == shape[2]
             l0   == [NoLocals EXCEPT !.spec = spec, !.csv = csv]
         IN  IF NoFilesProvided(spec, csv)
             THEN /\ resp' = [resp EXCEPT ![c] =
                                  ErrorResponse(400, "HTTPException", <<>>)]
                  /\ loc' = [loc EXCEPT ![c] = l0]
                  /\ pc' = [pc EXCEPT ![c] = "done"]
                  /\ loop' = Yield(c, "done")
             ELSE /\ \E filename \in StoreFileNames :
                       loc' = [loc EXCEPT ![c] =
                           EnterSave(l0, IF spec THEN SPEC ELSE CSV,
                                     filename, platform)]
                  /\ resp' = [resp EXCEPT ![c] = NoResponse]
                  /\ pc' = [pc EXCEPT ![c] = "read"]
                  /\ loop' = Yield(c, "read")
    /\ UNCHANGED <<platform, fs, clients, once, shapes, writer, nameLog>>

\* line 51: contents = await file.read()
Read(c) ==
    /\ pc[c] = "read"
    /\ Holds(c)
    /\ \E contents \in UploadContents :
         loc' = [loc EXCEPT ![c].contents = contents,
                            ![c].sent = (loc[c].label :> contents) @@ @]
    /\ pc' = [pc EXCEPT ![c] = "open"]
    /\ loop' = Yield(c, "open")
    /\ UNCHANGED <<platform, fs, clients, once, shapes, resp, before, writer,
                   nameLog>>

\* line 52: open(target_path, "wb")
Open(c) ==
    /\ pc[c] = "open"
    /\ Holds(c)
    /\ fs' = (loc[c].target_name :>
                 OpenTruncate(IF loc[c].target_name \in DOMAIN fs
                              THEN fs[loc[c].target_name] ELSE <<>>)) @@ fs
    /\ pc' = [pc EXCEPT ![c] = "write"]
    /\ loop' = Yield(c, "write")
    /\ UNCHANGED <<platform, clients, once, shapes, loc, resp, before, writer,
                   nameLog>>

\* line 52 raising OSError (directory not writable, no space for a new file):
\* nothing is created or truncated, and nothing catches the error
OpenFails(c) ==
    /\ pc[c] = "open"
    /\ Holds(c)
    /\ resp' = [resp EXCEPT ![c] = ErrorResponse(500, "OSError", loc[c].saved)]
    /\ pc' = [pc EXCEPT ![c] = "done"]
    /\ loop' = Yield(c, "done")
    /\ UNCHANGED <<platform, fs, clients, once, shapes, loc, before, writer,
                   nameLog>>

\* line 53: f.write(contents), at the handle's offset 0
Write(c) ==
    /\ pc[c] = "write"
    /\ Holds(c)
    /\ fs' = [fs EXCEPT ![loc[c].target_name] =
                  WriteAt(@, 0, loc[c].contents)]
    /\ writer' = (loc[c].target_name :> c) @@ writer
    /\ pc' = [pc EXCEPT ![c] = "close"]
    /\ loop' = Yield(c, "close")
    /\ UNCHANGED <<platform, clients, once, shapes, loc, resp, before, nameLog>>

\* line 53 (or the flush on leaving the with block) raising OSError after
\* only a proper prefix of the bytes reached the file
WriteFails(c) ==
    /\ pc[c] = "write"
    /\ Holds(c)
    /\ \E k \in 0..(Len(loc[c].contents) - 1) :
         fs' = [fs EXCEPT ![loc[c].target_name] =
                    WriteAt(@, 0, SubSeq(loc[c].contents, 1, k))]
    /\ writer' = (loc[c].target_name :> c) @@ writer
    /\ resp' = [resp EXCEPT ![c] = ErrorResponse(500, "OSError", loc[c].saved)]
    /\ pc' = [pc EXCEPT ![c] = "done"]
    /\ loop' = Yield(c, "done")
    /\ UNCHANGED <<platform, clients, once, shapes, loc, before, nameLog>>

\* the with block closes the file and _save returns (lines 54-59); then
\* either lines 63-64 enter _save for the csv part, up to its await, or
\* line 66 returns
Close(c) ==
    /\ pc[c] = "close"
    /\ Holds(c)
    /\ LET saved == (loc[c].label :> StoredFile(loc[c])) @@ loc[c].saved
       IN  IF loc[c].label = SPEC /\ loc[c].csv
           THEN /\ \E filename \in StoreFileNames :
                     loc' = [loc EXCEPT ![c] =
                         EnterSave([loc[c] EXCEPT !.saved = saved],
                                   CSV, filename, platform)]
                /\ pc' = [pc EXCEPT ![c] = "read"]
                /\ loop' = Yield(c, "read")
                /\ UNCHANGED resp
           ELSE /\ loc' = [loc EXCEPT ![c].saved = saved]
                /\ resp' = [resp EXCEPT ![c] = OkResponse(saved)]
                /\ pc' = [pc EXCEPT ![c] = "done"]
                /\ loop' = Yield(c, "done")
    /\ UNCHANGED <<platform, fs, clients, once, shapes, before, writer,
                   nameLog>>

NextStore ==
    \/ \E c \in clients : UploadFiles(c)
    \/ \E c \in clients : Read(c)
    \/ \E c \in clients : Open(c)
    \/ \E c \in clients : OpenFails(c)
    \/ \E c \in clients : Write(c)
    \/ \E c \in clients : WriteFails(c)
    \/ \E c \in clients : Close(c)

InitHandlers(cs, o, sh) ==
    /\ platform = "posix"
    /\ fs = <<>>
    /\ clients = cs
    /\ once = o
    /\ shapes = sh
    /\ pc = [c \in cs |-> "idle"]
    /\ loc = [c \in cs |-> NoLocals]
    /\ resp = [c \in cs |-> NoResponse]
    /\ loop = 0
    /\ before = [c \in cs |-> <<>>]
    /\ writer = <<>>
    /\ nameLog = <<>>

\* one client sending upload requests one after the other, each with any
\* combination of parts
InitStore == InitHandlers({1}, FALSE, BOOLEAN \X BOOLEAN)
SpecStore == InitStore /\ [][NextStore]_vars

\* two clients, one single-part upload request each, handled concurrently
InitRace == InitHandlers({1, 2}, TRUE, {<<TRUE, FALSE>>, <<FALSE, TRUE>>})
SpecRace == InitRace /\ [][NextStore]_vars

-----------------------------------------------------------------------------
(* Tabular previewer: csv.reader as csv_preview uses it (lines 92-98) *)

\* the reader's record state: the parser state, the fields saved and the
\* field being collected (dialect excel: quotechar '"', doublequote, no
\* escapechar, not strict)
ParseReset == [state |-> "START_RECORD", fields |-> <<>>, field |-> <<>>]

SaveField(st) == [st EXCEPT !.fields = Append(@, st.field), !.field = <<>>]
AddChar(st, c) == [st EXCEPT !.field = Append(@, c)]
AfterNewline(c) == IF c = "EOL" THEN "START_RECORD" ELSE "EAT_CRNL"

\* the reader's step on one character c, or on "EOL" at the end of a line
ProcessChar(st, c, d) ==
    LET startField ==
            IF c \in {"\n", "EOL"}
            THEN [SaveField(st) EXCEPT !.state = AfterNewline(c)]
            ELSE IF c = "\""
            THEN [st EXCEPT !.state = "IN_QUOTED_FIELD"]
            ELSE IF c = d
            THEN [SaveField(st) EXCEPT !.state = "START_FIELD"]
            ELSE [AddChar(st, c) EXCEPT !.state = "IN_FIELD"]
    IN  CASE st.state = "START_RECORD" ->
               IF c = "EOL" THEN st
               ELSE IF c = "\n" THEN [st EXCEPT !.state = "EAT_CRNL"]
               ELSE startField
          [] st.state = "START_FIELD" -> startField
          [] st.state = "IN_FIELD" ->
               IF c \in {"\n", "EOL"}
               THEN [SaveField(st) EXCEPT !.state = AfterNewline(c)]
               ELSE IF c = d
               THEN [SaveField(st) EXCEPT !.state = "START_FIELD"]
               ELSE AddChar(st, c)
          [] st.state = "IN_QUOTED_FIELD" ->
               IF c = "EOL" THEN st
               ELSE IF c = "\""
               THEN [st EXCEPT !.state = "QUOTE_IN_QUOTED_FIELD"]
               ELSE AddChar(st, c)
          [] st.state = "QUOTE_IN_QUOTED_FIELD" ->
               IF c = "\""
               THEN [AddChar(st, c) EXCEPT !.state = "IN_QUOTED_FIELD"]
               ELSE IF c = d
               THEN [SaveField(st) EXCEPT !.state = "START_FIELD"]
               ELSE IF c \in {"\n", "EOL"}
               THEN [SaveField(st) EXCEPT !.state = AfterNewline(c)]
               ELSE [AddChar(st, c) EXCEPT !.state = "IN_FIELD"]
          [] st.state = "EAT_CRNL" ->
               IF c = "EOL" THEN [st EXCEPT !.state = "START_RECORD"] ELSE st

\* the file iterator (newline=""): the end of the line that starts after pos
LineEnd(content, pos) ==
    LET nl == {i \in (pos + 1)..Len(content) : content[i] = "\n"}
    IN  IF nl = {} THEN Len(content)
        ELSE CHOOSE i \in nl : \A j \in nl : i <= j

RECURSIVE ProcessLine(_, _, _)
ProcessLine(st, line, d) ==
    IF line = <<>> THEN ProcessChar(st, "EOL", d)
    ELSE ProcessLine(ProcessChar(st, Head(line), d), Tail(line), d)

\* next(reader) with the file read up to pos: lines are taken from the file
\* until the record is complete; at the end of the file a record that has
\* begun is returned, and StopIteration is raised otherwise
RECURSIVE ReadRecord(_, _, _, _)
ReadRecord(st, content, pos, d) ==
    IF pos >= Len(content)
    THEN IF st.field # <<>> \/ st.state = "IN_QUOTED_FIELD"
         THEN [stop |-> FALSE, row |-> SaveField(st).fields, pos |-> pos]
         ELSE [stop |-> TRUE, row |-> <<>>, pos |-> pos]
    ELSE LET e  == LineEnd(content, pos)
             s2 == ProcessLine(st, SubSeq(content, pos + 1, e), d)
         IN  IF s2.state = "START_RECORD"
             THEN [stop |-> FALSE, row |-> s2.fields, pos |-> e]
             ELSE ReadRecord(s2, content, e, d)

ReaderNext(content, pos, d) == ReadRecord(ParseReset, content, pos, d)

\* list(csv.reader(f, delimiter=d)): all the records of a file
RECURSIVE RecordsFrom(_, _, _)
RecordsFrom(content, pos, d) ==
    LET r == ReaderNext(content, pos, d)
    IN  IF r.stop THEN <<>> ELSE <<r.row>> \o RecordsFrom(content, r.pos, d)

Records(content, d) == RecordsFrom(content, 0, d)

-----------------------------------------------------------------------------
(* Tabular previewer: the handler csv_preview (lines 80-108) *)

SampleSize == 8192

CsvChars == {"a", ",", ";", "\n", "\""}
PreviewFiles == SeqsUpTo(CsvChars, MaxFileLen)

\* the stored file the preview requests are about
PreviewName == StoredName(CSV, <<"a">>, "posix")
\* req.filename: the stored name, the stored name behind a directory part,
\* and a name that is not stored
PreviewNames == {PreviewName, <<".", ".", "/">> \o PreviewName, <<"b">>}

\* req.delimiter: None, "", one character, two characters
None == [given |-> FALSE, value |-> <<>>]
Given(v) == [given |-> TRUE, value |-> v]
Delimiters == {None, Given(<<>>), Given(<<",">>), Given(<<";">>),
               Given(<<",", ",">>)}

\* req.max_lines is any int; the smallest drawn is -1
MaxLinesValues == (0 - 1)..MaxLines

NoPreviewLocals ==
    [filename |-> <<>>, delimiter |-> None, max_lines |-> 0, name |-> <<>>,
     sample |-> <<>>, sniffed |-> FALSE, used |-> <<>>, pos |-> 0,
     headers |-> <<>>, rows |-> <<>>, i |-> 0, parsed |-> 0]

\* line 88: f.read(8192)
Sample(content) ==
    SubSeq(content, 1, IF Len(content) < SampleSize THEN Len(content)
                       ELSE SampleSize)

\* csv.Sniffer().sniff(sample): the delimiters it may return; "Error" stands
\* for csv.Error("Could not determine delimiter"). A sample with nothing but
\* line ends gives the error; otherwise the heuristic returns a character of
\* the sample, or gives up
Sniff(sample) ==
    IF Chars(sample) \ {"\n"} = {} THEN {"Error"}
    ELSE {"Error"} \cup (Chars(sample) \ {"\n"})

\* faulty variant: the sniffer runs for every request
SniffsAlways(delimiter) == TRUE

\* line 90: not req.delimiter
Sniffs(delimiter) == ~delimiter.given \/ delimiter.value = <<>>

\* faulty variant: the limit is compared after the row is kept
LimitReachedLate(i, max_lines) == i > max_lines

\* line 99: i >= req.max_lines
LimitReached(i, max_lines) == i >= max_lines

\* lines 102-108
CsvPreviewResponse(l) ==
    [filename |-> l.name, delimiter |-> l.used, headers |-> l.headers,
     rows |-> l.rows, total_preview_rows |-> Len(l.rows)]

PreviewOk(l) ==
    [status |-> 200, kind |-> "ok", detail |-> "", files |-> <<>>,
     preview |-> CsvPreviewResponse(l)]

\* a request arrives; lines 82-92: the file is looked up by basename, the
\* sample is read, the delimiter is fixed and the reader is made
CsvPreview(c) ==
    /\ pc[c] = "idle" \/ (pc[c] = "done" /\ ~once)
    /\ before' = [before EXCEPT ![c] = fs]
    /\ \E filename \in PreviewNames, delimiter \in Delimiters,
          max_lines \in MaxLinesValues :
         LET name == Basename(filename, platform)
             l0   == [NoPreviewLocals EXCEPT !.filename = filename,
                          !.delimiter = delimiter, !.max_lines = max_lines,
                          !.name = name]
             fail(status, kind, l) ==
                 /\ loc' = [loc EXCEPT ![c] = l]
                 /\ resp' = [resp EXCEPT ![c] = ErrorResponse(status, kind, <<>>)]
                 /\ pc' = [pc EXCEPT ![c] = "done"]
             go(l) ==
                 /\ loc' = [loc EXCEPT ![c] = l]
                 /\ resp' = [resp EXCEPT ![c] = NoResponse]
                 /\ pc' = [pc EXCEPT ![c] = "headers"]
         IN  IF name \notin DOMAIN fs
             THEN fail(404, "HTTPException", l0)
             ELSE LET l1 == [l0 EXCEPT !.sample = Sample(fs[name])]
                  IN  IF Sniffs(delimiter)
                      THEN \E out \in Sniff(l1.sample) :
                             LET l2 == [l1 EXCEPT !.sniffed = TRUE]
                             IN  IF out = "Error"
                                 THEN fail(500, "csv.Error", l2)
                                 ELSE go([l2 EXCEPT !.used = <<out>>])
                      ELSE IF Len(delimiter.value) # 1
                           THEN fail(500, "TypeError", l1)
                           ELSE go([l1 EXCEPT !.used = delimiter.value])
    /\ UNCHANGED <<platform, fs, clients, once, shapes, loop, writer, nameLog>>

\* lines 93-96: headers = next(reader), [] on StopIteration
ReadHeaders(c) ==
    /\ pc[c] = "headers"
    /\ LET r == ReaderNext(fs[loc[c].name], loc[c].pos, loc[c].used[1])
       IN  loc' = [loc EXCEPT ![c].headers = r.row, ![c].pos = r.pos]
    /\ pc' = [pc EXCEPT ![c] = "rows"]
    /\ UNCHANGED <<platform, fs, clients, once, shapes, resp, loop, before,
                   writer, nameLog>>

\* lines 98-101, one turn of the loop: the for statement takes the next
\* record from the reader, then the limit is tested and the row is kept
NextRow(c) ==
    /\ pc[c] = "rows"
    /\ LET r == ReaderNext(fs[loc[c].name], loc[c].pos, loc[c].used[1])
       IN  /\ ~r.stop
           /\ IF LimitReached(loc[c].i, loc[c].max_lines)
              THEN /\ loc' = [loc EXCEPT ![c].pos = r.pos,
                                         ![c].parsed = @ + 1]
                   /\ pc' = [pc EXCEPT ![c] = "return"]
              ELSE /\ loc' = [loc EXCEPT ![c].pos = r.pos,
                                         ![c].parsed = @ + 1,
                                         ![c].rows = Append(@, r.row),
                                         ![c].i = @ + 1]
                   /\ UNCHANGED pc
    /\ UNCHANGED <<platform, fs, clients, once, shapes, resp, loop, before,
                   writer, nameLog>>

\* line 98 with the reader exhausted: the loop ends
RowsExhausted(c) ==
    /\ pc[c] = "rows"
    /\ ReaderNext(fs[loc[c].name], loc[c].pos, loc[c].used[1]).stop
    /\ pc' = [pc EXCEPT ![c] = "return"]
    /\ UNCHANGED <<platform, fs, clients, once, shapes, loc, resp, loop,
                   before, writer, nameLog>>

\* lines 102-108
ReturnPreview(c) ==
    /\ pc[c] = "return"
    /\ resp' = [resp EXCEPT ![c] = PreviewOk(loc[c])]
    /\ pc' = [pc EXCEPT ![c] = "done"]
    /\ UNCHANGED <<platform, fs, clients, once, shapes, loc, loop, before,
                   writer, nameLog>>

NextPreview ==
    \/ \E c \in clients : CsvPreview(c)
    \/ \E c \in clients : ReadHeaders(c)
    \/ \E c \in clients : NextRow(c)
    \/ \E c \in clients : RowsExhausted(c)
    \/ \E c \in clients : ReturnPreview(c)

\* one client sending one preview request, about a file that an upload
\* stored as csv__a (the handler keeps nothing from request to request)
InitPreview ==
    /\ platform = "posix"
    /\ \E content \in PreviewFiles : fs = (PreviewName :> content)
    /\ clients = {1}
    /\ once = TRUE
    /\ shapes = {}
    /\ pc = [c \in {1} |-> "idle"]
    /\ loc = [c \in {1} |-> NoPreviewLocals]
    /\ resp = [c \in {1} |-> NoResponse]
    /\ loop = 0
    /\ before = [c \in {1} |-> <<>>]
    /\ writer = <<>>
    /\ nameLog = <<>>

SpecPreview == InitPreview /\ [][NextPreview]_vars

-----------------------------------------------------------------------------
(* Names specification: the stored name as a function of its inputs *)

InitNames ==
    /\ platform \in Platforms
    /\ fs = <<>>
    /\ clients = {}
    /\ once = TRUE
    /\ shapes = {}
    /\ pc = <<>>
    /\ loc = <<>>
    /\ resp = <<>>
    /\ loop = 0
    /\ before = <<>>
    /\ writer = <<>>
    /\ nameLog = <<>>

\* one _save call, up to the name it computes
ComputeName ==
    /\ Len(nameLog) < 2
    /\ \E label \in Labels, filename \in FileNames :
         nameLog' = Append(nameLog,
             [label |-> label, filename |-> filename,
              original_name |-> OriginalName(filename, label, platform),
              stored_as |-> StoredName(label, filename, platform)])
    /\ UNCHANGED <<platform, fs, clients, once, shapes, pc, loc, resp, loop,
                   before, writer>>

NextNames == ComputeName

SpecNames == InitNames /\ [][NextNames]_vars

-----------------------------------------------------------------------------
(* Claims about the stored name (SpecNames) *)

\* the written path os.path.join(UPLOAD_DIR, name) is a direct child of
\* UPLOAD_DIR: one path component, and not one that names a directory itself
DirectChild(name, plat) ==
    /\ Components(name, plat) = <<name>>
    /\ name \notin {<<>>, <<".">>, <<".", ".">>}

\* the name part of a stored name, as the data model defines originalName:
\* directory components stripped, spaces replaced
Sanitized(e) == NameWithoutSpaces(e.original_name)

Logged == {nameLog[i] : i \in 1..Len(nameLog)}

\* C1 as stated: no stored name contains a path-separator character ('/' or
\* '\') or the sequence "..".
C1_NoSeparatorNoDotDot ==
    \A e \in Logged :
        /\ Chars(e.stored_as) \cap {"/", "\\"} = {}
        /\ ~Contains(e.stored_as, <<".", ".">>)

\* C1 amended: no stored name contains a character that separates path
\* components on the platform the service runs on, and no stored name is "."
\* or ".." (it starts with label + "__"), so the written path is a direct
\* child of the content directory.
C1_DirectChild ==
    \A e \in Logged :
        /\ Chars(e.stored_as) \cap Seps(platform) = {}
        /\ DirectChild(e.stored_as, platform)
        /\ SubSeq(e.stored_as, 1, Len(e.label) + 2) = e.label \o <<"_", "_">>

C1_Witness ==
    \E e \in Logged :
        /\ e.filename = <<".", ".">>
        /\ Contains(e.stored_as, <<".", ".">>)
        /\ DirectChild(e.stored_as, platform)

\* C3 as stated: two uploads whose (label, originalFilename) pairs differ
\* compute different stored names.
C3_DistinctInputsDistinctNames ==
    \A e1, e2 \in Logged :
        (e1.label # e2.label \/ e1.filename # e2.filename)
            => e1.stored_as # e2.stored_as

\* C3 amended: two uploads compute the same stored name exactly when they
\* have the same label and the same sanitized name (final path segment of
\* the filename, or of the label for an empty filename, spaces replaced);
\* uploads with different labels never collide.
C3_CollideIffSameSanitized ==
    \A e1, e2 \in Logged :
        (e1.stored_as = e2.stored_as)
            <=> (e1.label = e2.label /\ Sanitized(e1) = Sanitized(e2))

C3_Witness ==
    /\ Len(nameLog) = 2
    /\ nameLog[1].label = nameLog[2].label
    /\ nameLog[1].filename = <<"a", " ">>
    /\ nameLog[2].filename = <<"a", "_">>
    /\ nameLog[1].stored_as = nameLog[2].stored_as

\* C4: every stored name is label + "__" + S, S the final path segment of the
\* filename with spaces replaced by underscores, and S the label whenever
\* that segment is empty; the name part is never empty.
C4_LabelWhenSegmentEmpty ==
    \A e \in Logged :
        LET seg == Basename(e.filename, platform)
            S   == IF seg = <<>> THEN e.label ELSE Replace(seg, " ", "_")
        IN  /\ e.stored_as = e.label \o <<"_", "_">> \o S
            /\ Len(e.stored_as) > Len(e.label) + 2

-----------------------------------------------------------------------------
(* Claims about the upload handler (SpecStore, SpecRace) *)

Finished(c) == pc[c] = "done"

\* the stored names a request has computed so far
Computed(c) ==
    {loc[c].saved[l].stored_as : l \in DOMAIN loc[c].saved}
        \cup (IF loc[c].target_name = <<>> THEN {} ELSE {loc[c].target_name})

\* every file but those in names is as it was when the request arrived
SameExcept(c, names) ==
    /\ DOMAIN before[c] \subseteq DOMAIN fs
    /\ \A n \in DOMAIN fs \ names : n \in DOMAIN before[c] /\ fs[n] = before[c][n]

\* C2: after every successful upload, the content served at the url of each
\* part is exactly the content that upload sent (whatever the file held
\* before, a longer content included) and its size is the reported one, and
\* every other stored file still holds what it held: so each stored name
\* serves the content of the most recent upload that computed it.
C2_RoundTripOverwrite ==
    \A c \in clients :
        (Finished(c) /\ resp[c].status = 200) =>
            /\ \A l \in DOMAIN resp[c].files :
                 LET f == resp[c].files[l]
                 IN  /\ f.stored_as \in DOMAIN fs
                     /\ Retrieve(f.url) = loc[c].sent[l]
                     /\ f.size = Len(loc[c].sent[l])
            /\ SameExcept(c, {resp[c].files[l].stored_as :
                                  l \in DOMAIN resp[c].files})

C2_Witness ==
    \E c \in clients :
        /\ Finished(c) /\ resp[c].status = 200
        /\ \E l \in DOMAIN resp[c].files :
             LET n == resp[c].files[l].stored_as
             IN  /\ n \in DOMAIN before[c]
                 /\ before[c][n] = <<"x", "y">>
                 /\ loc[c].sent[l] = <<"y">>
                 /\ fs[n] = <<"y">>

\* C8 as stated: whenever the batch call fails, no StoredFile metadata is
\* returned and the content directory holds exactly what it held before the
\* call.
C8_AllOrNothing ==
    \A c \in clients :
        (Finished(c) /\ resp[c].status # 200) =>
            /\ resp[c].files = <<>>
            /\ fs = before[c]

\* C8 amended: the batch fails with the validation error exactly when neither
\* part is supplied, and then the directory is unchanged; whenever it fails
\* no StoredFile metadata is returned for any part; after an I/O failure
\* every file but the ones whose stored names the batch computed is
\* unchanged, and a part saved before the failure stays written in full.
C8_NoMetadataOnFailure ==
    \A c \in clients :
        Finished(c) =>
            /\ (resp[c].status = 400) <=> (~loc[c].spec /\ ~loc[c].csv)
            /\ resp[c].status = 400 => fs = before[c]
            /\ resp[c].status # 200 =>
                 /\ resp[c].files = <<>>
                 /\ SameExcept(c, Computed(c))
                 /\ \A l \in DOMAIN loc[c].saved :
                      fs[loc[c].saved[l].stored_as] = loc[c].sent[l]

C8_Witness ==
    \E c \in clients :
        /\ Finished(c) /\ resp[c].status = 500
        /\ loc[c].label = CSV
        /\ SPEC \in DOMAIN loc[c].saved
        /\ loc[c].saved[SPEC].stored_as \notin DOMAIN before[c]
        /\ loc[c].saved[SPEC].stored_as \in DOMAIN fs
        /\ resp[c].files = <<>>

\* both uploads of the race are done, succeeded, and computed the same name
RaceOver ==
    /\ \A c \in clients : Finished(c) /\ resp[c].status = 200
    /\ \A c1, c2 \in clients : loc[c1].target_name = loc[c2].target_name

\* C9: once two concurrent uploads that computed the same stored name have
\* both completed, the file holds exactly the complete content of the upload
\* whose write came last, under every interleaving the handlers admit.
C9_LastWriterWins ==
    RaceOver =>
        \A c \in clients :
            LET n == loc[c].target_name
            IN  /\ n \in DOMAIN fs
                /\ fs[n] = loc[writer[n]].contents

C9_Witness ==
    /\ RaceOver
    /\ clients = {1, 2}
    /\ loc[1].contents = <<"x", "y">>
    /\ loc[2].contents = <<"y">>
    /\ writer[loc[1].target_name] = 2
    /\ fs[loc[1].target_name] = <<"y">>

-----------------------------------------------------------------------------
(* Claims about the previewer (SpecPreview) *)

\* the file a finished preview request was about, when it is stored
Previewed(c) == fs[loc[c].name]
FileExists(c) == loc[c].name \in DOMAIN fs

\* the data records of a file: all its records but the first
DataRecords(content, d) ==
    LET recs == Records(content, d)
    IN  IF recs = <<>> THEN <<>> ELSE Tail(recs)

Visible(r) == <<r.status, r.detail>>

\* C6: a preview without a delimiter of a stored file from whose sample no
\* delimiter can be inferred (an empty file is one) ends in a detection
\* error that is a client error (4xx), that the caller can tell from
\* NotFound, Validation and server-side I/O errors, and returns no result.
C6_DetectionErrorIsClientError ==
    \A c \in clients :
        (Finished(c) /\ FileExists(c) /\ ~loc[c].delimiter.given
            /\ (Previewed(c) = <<>> \/ resp[c].kind = "csv.Error")) =>
                /\ resp[c].kind = "csv.Error"
                /\ resp[c].status \in 400..499
                /\ Visible(resp[c]) \notin
                     {Visible(ErrorResponse(404, "HTTPException", <<>>)),
                      Visible(ErrorResponse(400, "HTTPException", <<>>)),
                      Visible(ErrorResponse(500, "OSError", <<>>))}
                /\ resp[c].preview = <<>>

\* C7 as stated: a successful preview of a file with header h and data
\* records r1..rn returns headers = h, rows = the first min(maxLines, n) data
\* records, rowCount = length of rows, and rowCount <= maxLines, for every
\* maxLines the request accepts.
C7_FirstMinRows ==
    \A c \in clients :
        (Finished(c) /\ resp[c].status = 200) =>
            LET d    == loc[c].used[1]
                recs == Records(Previewed(c), d)
                data == DataRecords(Previewed(c), d)
                out  == resp[c].preview
            IN  /\ out.headers = IF recs = <<>> THEN <<>> ELSE recs[1]
                /\ out.rows = SubSeq(data, 1, Min(loc[c].max_lines, Len(data)))
                /\ out.total_preview_rows = Len(out.rows)
                /\ out.total_preview_rows <= loc[c].max_lines

\* C7 amended: as stated for every maxLines >= 0 (headers = h, or [] for a
\* file without records; rows = the first min(maxLines, n) data records;
\* rowCount = length of rows <= maxLines); for a negative maxLines, which
\* the request accepts too, headers = h, rows = [] and rowCount = 0, so
\* rowCount <= maxLines does not hold there.
C7_FirstMinRowsNonNegative ==
    \A c \in clients :
        (Finished(c) /\ resp[c].status = 200) =>
            LET d    == loc[c].used[1]
                recs == Records(Previewed(c), d)
                data == DataRecords(Previewed(c), d)
                out  == resp[c].preview
                m    == IF loc[c].max_lines < 0 THEN 0 ELSE loc[c].max_lines
            IN  /\ out.headers = IF recs = <<>> THEN <<>> ELSE recs[1]
                /\ out.rows = SubSeq(data, 1, Min(m, Len(data)))
                /\ out.total_preview_rows = Len(out.rows)
                /\ loc[c].max_lines >= 0 =>
                     out.total_preview_rows <= loc[c].max_lines

C7_Witness ==
    \E c \in clients :
        /\ Finished(c) /\ resp[c].status = 200
        /\ Previewed(c) = <<"a", "\n", ",", "\n">>
        /\ loc[c].max_lines = 0
        /\ loc[c].used = <<",">>
        /\ resp[c].preview.headers = <<<<"a">>>>
        /\ resp[c].preview.rows = <<>>
        /\ Len(DataRecords(Previewed(c), ",")) = 1

\* C10: for every successful preview, with maxLines >= 0, of a file with more
\* than maxLines data records, the number of data records the previewer
\* parsed from the file is exactly maxLines.
C10_ParsesExactlyMaxLines ==
    \A c \in clients :
        (Finished(c) /\ resp[c].status = 200 /\ loc[c].max_lines >= 0
            /\ Len(DataRecords(Previewed(c), loc[c].used[1]))
                   > loc[c].max_lines) =>
                loc[c].parsed = loc[c].max_lines

====
